---------------------------- MODULE Spec2Model ----------------------------
(***************************************************************************)
(* Model of library/constant_time.c (Mbed TLS): mbedtls_ct_memcmp,         *)
(* mbedtls_ct_memmove_left, mbedtls_ct_memcpy_if, mbedtls_ct_memcpy_offset *)
(* and mbedtls_ct_zeroize_if.                                              *)
(*                                                                         *)
(* Memory is one flat array of bytes indexed by address, so that aliasing  *)
(* between the buffers of a call is real.  size_t and pointers are         *)
(* SizeBits wide and wrap.  A 32-bit word is the tuple of its four bytes,  *)
(* least significant first; a condition is the tuple of its eight bytes.   *)
(* Every loop iteration of the C code is one step, and every byte the code *)
(* loads or stores is appended to trace.                                   *)
(***************************************************************************)
EXTENDS Integers, Sequences, FiniteSets

VARIABLES
    cfg,     \* the build: which of the #if-guarded fast paths are compiled in
    mem,     \* memory: address -> byte
    mem0,    \* memory as it was when the call was made
    pc,      \* position of the running call
    cmp,     \* frame of mbedtls_ct_memcmp
    ret,     \* value returned by mbedtls_ct_memcmp
    cpy,     \* frame of mbedtls_ct_memcpy_if
    ofs,     \* frame of mbedtls_ct_memcpy_offset
    mv,      \* frame of mbedtls_ct_memmove_left
    zr,      \* frame of mbedtls_ct_zeroize_if
    trace,   \* the loads and stores of the call, in program order
    ncopy    \* calls of mbedtls_ct_memcpy_if made by mbedtls_ct_memcpy_offset

vars == <<cfg, mem, mem0, pc, cmp, ret, cpy, ofs, mv, zr, trace, ncopy>>

---------------------------------------------------------------------------
\* Bounds of the model.

SizeBits == 4      \* width of size_t and of a pointer
MaxN == 5          \* longest buffers given to mbedtls_ct_memcmp
MaxLen == 5        \* longest buffers given to memcpy_if, memcpy_offset, zeroize_if
MaxTotal == 8      \* longest buffer given to mbedtls_ct_memmove_left
MaxOff == 2        \* offsets given to memcpy_offset: 0..MaxOff and the top two

---------------------------------------------------------------------------
\* Integer types.

RECURSIVE Pow2(_)
Pow2(k) == IF k = 0 THEN 1 ELSE 2 * Pow2(k - 1)

SIZE_MAX == Pow2(SizeBits) - 1
SzAdd(x, y) == (x + y) % (SIZE_MAX + 1)
SzSub(x, y) == (x - y + SIZE_MAX + 1) % (SIZE_MAX + 1)

NULL == 0
Addr == 1..SIZE_MAX

RECURSIVE AndBits(_, _, _)
AndBits(x, y, k) ==
    IF k = 0 THEN 0
    ELSE (x % 2) * (y % 2) + 2 * AndBits(x \div 2, y \div 2, k - 1)
RECURSIVE OrBits(_, _, _)
OrBits(x, y, k) ==
    IF k = 0 THEN 0
    ELSE ((x % 2) + (y % 2) - (x % 2) * (y % 2)) + 2 * OrBits(x \div 2, y \div 2, k - 1)
RECURSIVE XorBits(_, _, _)
XorBits(x, y, k) ==
    IF k = 0 THEN 0
    ELSE (((x % 2) + (y % 2)) % 2) + 2 * XorBits(x \div 2, y \div 2, k - 1)

\* The C operators &, |, ^ and ~ on words given as tuples of bytes.
And(x, y) == [k \in DOMAIN x |-> AndBits(x[k], y[k], 8)]
Or(x, y)  == [k \in DOMAIN x |-> OrBits(x[k], y[k], 8)]
Xor(x, y) == [k \in DOMAIN x |-> XorBits(x[k], y[k], 8)]
Not(x)    == [k \in DOMAIN x |-> 255 - x[k]]

\* Conversions: unsigned char -> uint32_t, condition -> uint32_t,
\* uint32_t -> unsigned char, uint32_t -> int (two's complement).
Zero32 == <<0, 0, 0, 0>>
Ext32(b) == <<b, 0, 0, 0>>
Uint32(c) == SubSeq(c, 1, 4)
ToByte(w) == w[1]
ToInt(w) ==
    w[1] + 256 * w[2] + 65536 * w[3]
         + 16777216 * (IF w[4] >= 128 THEN w[4] - 256 ELSE w[4])

---------------------------------------------------------------------------
\* The build.

MBEDTLS_EFFICIENT_UNALIGNED_ACCESS == cfg \in {"unaligned", "unaligned_volatile"}
MBEDTLS_EFFICIENT_UNALIGNED_VOLATILE_ACCESS == cfg = "unaligned_volatile"

---------------------------------------------------------------------------
\* Memory.

Range(p, n) == {p + k : k \in 0..(n - 1)}
Valid(p, n) == n = 0 \/ (p \in Addr /\ p + n - 1 <= SIZE_MAX)

\* Four bytes at p as a word, and a word stored at p.
get_unaligned_uint32(m, p) == [k \in 1..4 |-> m[p + k - 1]]
put_unaligned_uint32(m, p, w) ==
    [a \in DOMAIN m |-> IF a \in Range(p, 4) THEN w[a - p + 1] ELSE m[a]]

Loads(p, n) == [k \in 1..n |-> <<"r", p + k - 1>>]
Stores(p, n) == [k \in 1..n |-> <<"w", p + k - 1>>]

NoFrame == [fn |-> "none"]

IdleState ==
    /\ pc = "idle"
    /\ mem0 = mem
    /\ cmp = NoFrame /\ cpy = NoFrame /\ ofs = NoFrame /\ mv = NoFrame /\ zr = NoFrame
    /\ ret = 0
    /\ trace = <<>>
    /\ ncopy = 0

---------------------------------------------------------------------------
\* int mbedtls_ct_memcmp(const void *a, const void *b, size_t n)

Call_memcmp(a, b, n) ==
    /\ pc = "idle"
    /\ cmp' = [fn |-> "memcmp", A |-> a, B |-> b, n |-> n, i |-> 0, diff |-> Zero32]
    /\ pc' = IF MBEDTLS_EFFICIENT_UNALIGNED_VOLATILE_ACCESS
             THEN "memcmp_word" ELSE "memcmp_byte"
    /\ UNCHANGED <<cfg, mem, mem0, ret, cpy, ofs, mv, zr, trace, ncopy>>

memcmp_word ==
    /\ pc = "memcmp_word"
    /\ IF SzAdd(cmp.i, 4) <= cmp.n
       THEN LET x == get_unaligned_uint32(mem, cmp.A + cmp.i)
                y == get_unaligned_uint32(mem, cmp.B + cmp.i)
            IN  /\ cmp' = [cmp EXCEPT !.diff = Or(cmp.diff, Xor(x, y)),
                                      !.i = SzAdd(cmp.i, 4)]
                /\ pc' = pc
       ELSE /\ pc' = "memcmp_byte"
            /\ cmp' = cmp
    /\ UNCHANGED <<cfg, mem, mem0, ret, cpy, ofs, mv, zr, trace, ncopy>>

\* Mutant: the accumulator is assigned, not OR-ed into.
memcmp_byte_assign ==
    /\ pc = "memcmp_byte"
    /\ IF cmp.i < cmp.n
       THEN LET x == mem[cmp.A + cmp.i]
                y == mem[cmp.B + cmp.i]
            IN  /\ cmp' = [cmp EXCEPT !.diff = Ext32(XorBits(x, y, 8)),
                                      !.i = SzAdd(cmp.i, 1)]
                /\ UNCHANGED <<pc, ret>>
       ELSE /\ ret' = ToInt(cmp.diff)
            /\ pc' = "done"
            /\ cmp' = cmp
    /\ UNCHANGED <<cfg, mem, mem0, cpy, ofs, mv, zr, trace, ncopy>>

memcmp_byte ==
    /\ pc = "memcmp_byte"
    /\ IF cmp.i < cmp.n
       THEN LET x == mem[cmp.A + cmp.i]
                y == mem[cmp.B + cmp.i]
            IN  /\ cmp' = [cmp EXCEPT !.diff = Or(cmp.diff, Ext32(XorBits(x, y, 8))),
                                      !.i = SzAdd(cmp.i, 1)]
                /\ UNCHANGED <<pc, ret>>
       ELSE /\ ret' = ToInt(cmp.diff)
            /\ pc' = "done"
            /\ cmp' = cmp
    /\ UNCHANGED <<cfg, mem, mem0, cpy, ofs, mv, zr, trace, ncopy>>

\* Inputs: two buffers of MaxN bytes over two byte values, the second of
\* which has its top bit set; a and b point at either, n is any length.
CmpBytes == {0, 129}
CmpMems ==
    {[a \in Addr |-> IF a <= 2 * MaxN THEN f[a] ELSE 0] :
        f \in [1..(2 * MaxN) -> CmpBytes]}
CmpPtrs == {1, 1 + MaxN}

InitCmp ==
    /\ cfg \in {"bytewise", "unaligned_volatile"}
    /\ mem \in CmpMems
    /\ IdleState

NextCmp ==
    \/ \E b \in CmpPtrs, n \in 0..MaxN : Call_memcmp(1, b, n)
    \/ memcmp_word
    \/ memcmp_byte

SpecCmp == InitCmp /\ [][NextCmp]_vars

\* C1: when mbedtls_ct_memcmp(A, B, n) has returned, its result is 0 if and
\* only if A[i] = B[i] for every i in 0..n-1 (so it is 0 for n = 0 and for
\* A and B the same buffer).
C1_MemcmpZeroIffEqual ==
    (pc = "done" /\ cmp.fn = "memcmp") =>
        /\ (ret = 0) <=> (\A i \in 0..(cmp.n - 1) : mem[cmp.A + i] = mem[cmp.B + i])
        /\ cmp.n = 0 => ret = 0
        /\ cmp.A = cmp.B => ret = 0

\* Two distinct buffers of the greatest length with equal contents, not all
\* zero, compared through the word loop and the byte loop.
C1_Witness ==
    /\ pc = "done" /\ cmp.fn = "memcmp"
    /\ cfg = "unaligned_volatile"
    /\ cmp.A # cmp.B /\ cmp.n = MaxN
    /\ \A i \in 0..(cmp.n - 1) : mem[cmp.A + i] = mem[cmp.B + i]
    /\ \E i \in 0..(cmp.n - 1) : mem[cmp.A + i] # 0
    /\ ret = 0

---------------------------------------------------------------------------
\* Conditions (mbedtls_ct_condition_t) and the scalar primitives the file is
\* built on.

MBEDTLS_CT_TRUE  == <<255, 255, 255, 255, 255, 255, 255, 255>>
MBEDTLS_CT_FALSE == <<0, 0, 0, 0, 0, 0, 0, 0>>
Conditions == {MBEDTLS_CT_TRUE, MBEDTLS_CT_FALSE}

mbedtls_ct_compiler_opaque(x) == x
mbedtls_ct_uint_eq(x, y) == IF x = y THEN MBEDTLS_CT_TRUE ELSE MBEDTLS_CT_FALSE
mbedtls_ct_uint_gt(x, y) == IF x > y THEN MBEDTLS_CT_TRUE ELSE MBEDTLS_CT_FALSE
Ext64(b) == <<b, 0, 0, 0, 0, 0, 0, 0>>
mbedtls_ct_uint_if(condition, if1, if0) ==
    ToByte(Or(And(condition, Ext64(if1)), And(Not(condition), Ext64(if0))))
mbedtls_ct_uint_if_else_0(condition, if1) ==
    ToByte(And(condition, Ext64(if1)))

---------------------------------------------------------------------------
\* void mbedtls_ct_memcpy_if(condition, dest, src1, src2, len)

\* The frame on entry: mask, not_mask, the NULL src2 redirected to dest.
\* src2_arg keeps the argument as passed, ret_to the position of the caller.
memcpy_if_frame(condition, dest, src1, src2, len, ret_to) ==
    [fn        |-> "memcpy_if",
     condition |-> condition,
     dest      |-> dest,
     src1      |-> src1,
     src2_arg  |-> src2,
     src2      |-> IF src2 = NULL THEN dest ELSE src2,
     len       |-> len,
     mask      |-> Uint32(condition),
     not_mask  |-> Uint32(Not(mbedtls_ct_compiler_opaque(condition))),
     i         |-> 0,
     ret_to    |-> ret_to]

memcpy_if_entry ==
    IF MBEDTLS_EFFICIENT_UNALIGNED_ACCESS THEN "memcpy_if_word" ELSE "memcpy_if_byte"

Call_memcpy_if(condition, dest, src1, src2, len) ==
    /\ pc = "idle"
    /\ cpy' = memcpy_if_frame(condition, dest, src1, src2, len, "done")
    /\ pc' = memcpy_if_entry
    /\ UNCHANGED <<cfg, mem, mem0, cmp, ret, ofs, mv, zr, trace, ncopy>>

memcpy_if_word ==
    /\ pc = "memcpy_if_word"
    /\ IF SzAdd(cpy.i, 4) <= cpy.len
       THEN LET a == And(get_unaligned_uint32(mem, cpy.src1 + cpy.i), cpy.mask)
                b == And(get_unaligned_uint32(mem, cpy.src2 + cpy.i), cpy.not_mask)
            IN  /\ mem' = put_unaligned_uint32(mem, cpy.dest + cpy.i, Or(a, b))
                /\ trace' = trace \o Loads(cpy.src1 + cpy.i, 4)
                                  \o Loads(cpy.src2 + cpy.i, 4)
                                  \o Stores(cpy.dest + cpy.i, 4)
                /\ cpy' = [cpy EXCEPT !.i = SzAdd(cpy.i, 4)]
                /\ pc' = pc
       ELSE /\ pc' = "memcpy_if_byte"
            /\ UNCHANGED <<mem, trace, cpy>>
    /\ UNCHANGED <<cfg, mem0, cmp, ret, ofs, mv, zr, ncopy>>

\* Mutant: the store is skipped when the condition is false and the second
\* source is dest itself (a branch on the condition).
memcpy_if_byte_branch ==
    /\ pc = "memcpy_if_byte"
    /\ IF cpy.i < cpy.len
       THEN LET v == ToByte(Or(And(Ext32(mem[cpy.src1 + cpy.i]), cpy.mask),
                               And(Ext32(mem[cpy.src2 + cpy.i]), cpy.not_mask)))
                skip == cpy.condition = MBEDTLS_CT_FALSE /\ cpy.src2 = cpy.dest
            IN  /\ mem' = [mem EXCEPT ![cpy.dest + cpy.i] = v]
                /\ trace' = trace \o Loads(cpy.src1 + cpy.i, 1)
                                  \o Loads(cpy.src2 + cpy.i, 1)
                                  \o (IF skip THEN <<>> ELSE Stores(cpy.dest + cpy.i, 1))
                /\ cpy' = [cpy EXCEPT !.i = SzAdd(cpy.i, 1)]
                /\ pc' = pc
       ELSE /\ pc' = cpy.ret_to
            /\ UNCHANGED <<mem, trace, cpy>>
    /\ UNCHANGED <<cfg, mem0, cmp, ret, ofs, mv, zr, ncopy>>

\* Mutant: mask and not_mask exchanged in the byte loop.
memcpy_if_byte_swapped ==
    /\ pc = "memcpy_if_byte"
    /\ IF cpy.i < cpy.len
       THEN LET v == ToByte(Or(And(Ext32(mem[cpy.src1 + cpy.i]), cpy.not_mask),
                               And(Ext32(mem[cpy.src2 + cpy.i]), cpy.mask)))
            IN  /\ mem' = [mem EXCEPT ![cpy.dest + cpy.i] = v]
                /\ trace' = trace \o Loads(cpy.src1 + cpy.i, 1)
                                  \o Loads(cpy.src2 + cpy.i, 1)
                                  \o Stores(cpy.dest + cpy.i, 1)
                /\ cpy' = [cpy EXCEPT !.i = SzAdd(cpy.i, 1)]
                /\ pc' = pc
       ELSE /\ pc' = cpy.ret_to
            /\ UNCHANGED <<mem, trace, cpy>>
    /\ UNCHANGED <<cfg, mem0, cmp, ret, ofs, mv, zr, ncopy>>

memcpy_if_byte ==
    /\ pc = "memcpy_if_byte"
    /\ IF cpy.i < cpy.len
       THEN LET v == ToByte(Or(And(Ext32(mem[cpy.src1 + cpy.i]), cpy.mask),
                               And(Ext32(mem[cpy.src2 + cpy.i]), cpy.not_mask)))
            IN  /\ mem' = [mem EXCEPT ![cpy.dest + cpy.i] = v]
                /\ trace' = trace \o Loads(cpy.src1 + cpy.i, 1)
                                  \o Loads(cpy.src2 + cpy.i, 1)
                                  \o Stores(cpy.dest + cpy.i, 1)
                /\ cpy' = [cpy EXCEPT !.i = SzAdd(cpy.i, 1)]
                /\ pc' = pc
       ELSE /\ pc' = cpy.ret_to
            /\ UNCHANGED <<mem, trace, cpy>>
    /\ UNCHANGED <<cfg, mem0, cmp, ret, ofs, mv, zr, ncopy>>

\* Memory contents with pairwise distinct bytes.
MemA == [a \in Addr |-> (37 * a) % 256]
MemB == [a \in Addr |-> 255 - a]
MemC == [a \in Addr |-> a]

\* Inputs: three regions of MaxLen bytes, and one address inside the first
\* region that overlaps it partly; src2 may be NULL.
CpyPtrs == {1, 2, 1 + MaxLen, 1 + 2 * MaxLen}
Disjoint(p, q, n) == Range(p, n) \cap Range(q, n) = {}
SameOrDisjoint(p, q, n) == p = q \/ Disjoint(p, q, n)

InitCpyIf ==
    /\ cfg \in {"bytewise", "unaligned"}
    /\ mem \in {MemA, MemB}
    /\ IdleState

NextCpyIf ==
    \/ /\ pc = "idle"
       /\ \E condition \in Conditions, dest \in CpyPtrs, src1 \in CpyPtrs,
             src2 \in CpyPtrs \cup {NULL}, len \in 0..MaxLen :
            /\ Valid(dest, len) /\ Valid(src1, len) /\ (src2 = NULL \/ Valid(src2, len))
            /\ Call_memcpy_if(condition, dest, src1, src2, len)
    \/ memcpy_if_word
    \/ memcpy_if_byte

SpecCpyIf == InitCpyIf /\ [][NextCpyIf]_vars

StoresOf(t) == SelectSeq(t, LAMBDA e : e[1] = "w")

\* C2: after mbedtls_ct_memcpy_if with a valid condition and sources that are
\* each disjoint from dest or the same region as dest, dest holds what src1
\* held when the condition is true and what src2 held when it is false; with
\* src2 NULL and the condition false, dest holds what it held before.
C2_MemcpyIfSelects ==
    (/\ pc = "done" /\ cpy.fn = "memcpy_if"
     /\ SameOrDisjoint(cpy.src1, cpy.dest, cpy.len)
     /\ (cpy.src2_arg = NULL \/ SameOrDisjoint(cpy.src2_arg, cpy.dest, cpy.len)))
    => \A j \in 0..(cpy.len - 1) :
          mem[cpy.dest + j] =
              IF cpy.condition = MBEDTLS_CT_TRUE THEN mem0[cpy.src1 + j]
              ELSE IF cpy.src2_arg = NULL THEN mem0[cpy.dest + j]
              ELSE mem0[cpy.src2_arg + j]

\* A false condition selecting a second source distinct from dest, with the
\* first source being dest itself, through the word loop and the byte loop.
C2_Witness ==
    /\ pc = "done" /\ cpy.fn = "memcpy_if"
    /\ cfg = "unaligned" /\ cpy.len = MaxLen
    /\ cpy.condition = MBEDTLS_CT_FALSE
    /\ cpy.src1 = cpy.dest
    /\ cpy.src2_arg # NULL /\ Disjoint(cpy.src2_arg, cpy.dest, cpy.len)
    /\ \A j \in 0..(cpy.len - 1) : mem[cpy.dest + j] = mem0[cpy.src2_arg + j]
    /\ \E j \in 0..(cpy.len - 1) : mem[cpy.dest + j] # mem0[cpy.dest + j]

\* C6: in a call of mbedtls_ct_memcpy_if the stores made so far are those to
\* dest, dest+1, ..., dest+i-1 in that order, whatever the condition; when the
\* call has returned every byte of dest[0..len-1] has been stored exactly once.
C6_MemcpyIfStoresFixed ==
    cpy.fn = "memcpy_if" =>
        /\ StoresOf(trace) = Stores(cpy.dest, cpy.i)
        /\ pc = "done" => cpy.i = cpy.len

\* A returned call with a false condition and src2 NULL, where no byte of dest
\* changes, and all len stores were made all the same.
C6_Witness ==
    /\ pc = "done" /\ cpy.fn = "memcpy_if"
    /\ cpy.condition = MBEDTLS_CT_FALSE /\ cpy.src2_arg = NULL
    /\ cpy.src1 # cpy.dest
    /\ cpy.len = MaxLen
    /\ mem = mem0
    /\ Len(StoresOf(trace)) = MaxLen

---------------------------------------------------------------------------
\* void mbedtls_ct_memcpy_offset(dest, src, offset, offset_min, offset_max, len)

\* ncopy counts up to CopyCap and stays there.
CopyCap == SIZE_MAX + 2
Bump(c) == IF c < CopyCap THEN c + 1 ELSE c

Call_memcpy_offset(dest, src, offset, offset_min, offset_max, len) ==
    /\ pc = "idle"
    /\ ofs' = [fn |-> "memcpy_offset", dest |-> dest, src |-> src, offset |-> offset,
               offset_min |-> offset_min, offset_max |-> offset_max, len |-> len,
               offsetval |-> offset_min]
    /\ pc' = "memcpy_offset_loop"
    /\ UNCHANGED <<cfg, mem, mem0, cmp, ret, cpy, mv, zr, trace, ncopy>>

\* The loop test and, when it passes, the call of mbedtls_ct_memcpy_if.
memcpy_offset_step(in_range, condition, src2) ==
    /\ pc = "memcpy_offset_loop"
    /\ IF in_range
       THEN /\ cpy' = memcpy_if_frame(condition, ofs.dest, SzAdd(ofs.src, ofs.offsetval),
                                      src2, ofs.len, "memcpy_offset_next")
            /\ pc' = memcpy_if_entry
            /\ ncopy' = Bump(ncopy)
       ELSE /\ pc' = "done"
            /\ UNCHANGED <<cpy, ncopy>>
    /\ UNCHANGED <<cfg, mem, mem0, cmp, ret, ofs, mv, zr, trace>>

\* Mutant: the loop stops one candidate early (< for <=).
memcpy_offset_loop_lt ==
    memcpy_offset_step(ofs.offsetval < ofs.offset_max,
                       mbedtls_ct_uint_eq(ofs.offsetval, ofs.offset), NULL)

\* Mutant: the candidate is compared with offset_min, not with offset.
memcpy_offset_loop_min ==
    memcpy_offset_step(ofs.offsetval <= ofs.offset_max,
                       mbedtls_ct_uint_eq(ofs.offsetval, ofs.offset_min), NULL)

\* Mutant: src is passed as the second source in place of NULL.
memcpy_offset_loop_src2 ==
    memcpy_offset_step(ofs.offsetval <= ofs.offset_max,
                       mbedtls_ct_uint_eq(ofs.offsetval, ofs.offset), ofs.src)

memcpy_offset_loop ==
    memcpy_offset_step(ofs.offsetval <= ofs.offset_max,
                       mbedtls_ct_uint_eq(ofs.offsetval, ofs.offset), NULL)

\* mbedtls_ct_memcpy_if has returned: offsetval++.
memcpy_offset_next ==
    /\ pc = "memcpy_offset_next"
    /\ ofs' = [ofs EXCEPT !.offsetval = SzAdd(ofs.offsetval, 1)]
    /\ pc' = "memcpy_offset_loop"
    /\ UNCHANGED <<cfg, mem, mem0, cmp, ret, cpy, mv, zr, trace, ncopy>>

\* Inputs: offsets among 0..MaxOff and the two greatest values of size_t, in
\* any order; src readable for offset_max + len bytes and apart from dest.
OffVals == (0..MaxOff) \cup {SIZE_MAX - 1, SIZE_MAX}
OffSrcs == {1, 1 + MaxLen}
OffDests(src, offset_max, len) == {1, src + offset_max + len}

InitOffset ==
    /\ cfg \in {"bytewise", "unaligned"}
    /\ mem \in {MemA, MemB}
    /\ IdleState

NextOffset ==
    \/ /\ pc = "idle"
       /\ \E src \in OffSrcs, offset \in OffVals, offset_min \in OffVals,
             offset_max \in OffVals, len \in 0..MaxLen :
            \E dest \in OffDests(src, offset_max, len) :
                /\ Valid(src, offset_max + len)
                /\ Valid(dest, len)
                /\ Range(dest, len) \cap Range(src, offset_max + len) = {}
                /\ Call_memcpy_offset(dest, src, offset, offset_min, offset_max, len)
    \/ memcpy_offset_loop
    \/ memcpy_if_word
    \/ memcpy_if_byte
    \/ memcpy_offset_next

SpecOffset == InitOffset /\ [][NextOffset]_vars

InCall == ofs.fn = "memcpy_offset"
InOffsetRange == ofs.offset_min <= ofs.offset /\ ofs.offset <= ofs.offset_max

\* C3: after mbedtls_ct_memcpy_offset with offset_min <= offset <= offset_max,
\* dest[j] holds what src[offset + j] held, for every j in 0..len-1.
C3_MemcpyOffsetCopies ==
    (pc = "done" /\ InCall /\ InOffsetRange) =>
        \A j \in 0..(ofs.len - 1) :
            mem[ofs.dest + j] = mem0[ofs.src + ofs.offset + j]

\* A returned call over three candidates with the secret offset in the middle
\* and the greatest length: dest has changed and holds src[offset ..].
C3_Witness ==
    /\ pc = "done" /\ InCall
    /\ ofs.offset_min = 0 /\ ofs.offset = 1 /\ ofs.offset_max = 2
    /\ ofs.len = MaxLen
    /\ \A j \in 0..(ofs.len - 1) : mem[ofs.dest + j] = mem0[ofs.src + 1 + j]
    /\ \A j \in 0..(ofs.len - 1) : mem[ofs.dest + j] # mem0[ofs.dest + j]

\* The loads of the call that fall in src[0 .. offset_max + len - 1].
SrcLoads ==
    SelectSeq(trace, LAMBDA e :
        e[1] = "r" /\ e[2] \in Range(ofs.src, ofs.offset_max + ofs.len))

\* The loads of candidates lo..hi in ascending order, len bytes each.
RECURSIVE CandLoads(_, _, _, _)
CandLoads(src, lo, hi, len) ==
    IF lo > hi THEN <<>>
    ELSE Loads(src + lo, len) \o CandLoads(src, lo + 1, hi, len)

\* C7: the loads from src made by mbedtls_ct_memcpy_offset are, for each
\* candidate v from offset_min upwards in ascending order, src[v .. v+len-1]
\* once each, whether or not v equals offset: candidates below offsetval are
\* read in full, the current one as far as the running conditional copy has
\* got, and on return all of offset_min..offset_max have been read.
C7_MemcpyOffsetLoadsFixed ==
    InCall =>
        /\ SrcLoads =
              CandLoads(ofs.src, ofs.offset_min, ofs.offsetval - 1, ofs.len)
              \o (CASE pc \in {"memcpy_if_word", "memcpy_if_byte"} ->
                          Loads(ofs.src + ofs.offsetval, cpy.i)
                    [] pc = "memcpy_offset_next" ->
                          Loads(ofs.src + ofs.offsetval, ofs.len)
                    [] OTHER -> <<>>)
        /\ pc = "done" =>
              SrcLoads = CandLoads(ofs.src, ofs.offset_min, ofs.offset_max, ofs.len)

\* A returned call over three candidates, two bytes each, whose secret offset
\* is the first candidate: the later candidates were read all the same.
C7_Witness ==
    /\ pc = "done" /\ InCall
    /\ ofs.offset_min = 0 /\ ofs.offset = 0 /\ ofs.offset_max = 2
    /\ ofs.len = 2
    /\ SrcLoads = << <<"r", ofs.src>>, <<"r", ofs.src + 1>>,
                     <<"r", ofs.src + 1>>, <<"r", ofs.src + 2>>,
                     <<"r", ofs.src + 2>>, <<"r", ofs.src + 3>> >>

\* C9: with offset outside [offset_min, offset_max] memory stays what it was
\* before the call at every step of mbedtls_ct_memcpy_offset, so that
\* dest[0..len-1] is unchanged on return; every conditional copy of at least
\* one byte has a false condition and so selects dest's own bytes.
C9_OutOfRangeLeavesDest ==
    (InCall /\ ~InOffsetRange) =>
        /\ mem = mem0
        /\ (cpy.fn = "memcpy_if" /\ cpy.len > 0) => cpy.condition = MBEDTLS_CT_FALSE

\* A returned call over three candidates with offset above offset_max: every
\* byte of dest was stored three times and holds what it held.
C9_Witness ==
    /\ pc = "done" /\ InCall
    /\ ofs.offset_min = 0 /\ ofs.offset_max = 2 /\ ofs.offset = SIZE_MAX
    /\ ofs.len = MaxLen
    /\ ncopy = 3
    /\ Len(StoresOf(trace)) = 3 * MaxLen
    /\ \A j \in 0..(ofs.len - 1) : mem[ofs.dest + j] = mem0[ofs.dest + j]

\* C10: mbedtls_ct_memcpy_offset makes offset_max - offset_min + 1 conditional
\* copies when offset_min <= offset_max and none otherwise, and then returns:
\* it never makes more, and has made exactly that many when it has returned.
C10_CopiesMatchRange ==
    InCall =>
        LET copies == IF ofs.offset_min <= ofs.offset_max
                      THEN ofs.offset_max - ofs.offset_min + 1
                      ELSE 0
        IN  /\ ncopy <= copies
            /\ pc = "done" => ncopy = copies

\* The count of C10 does hold of every call with offset_max below SIZE_MAX and
\* of every call with offset_min > offset_max.
CopiesMatchRangeBelowMax ==
    (InCall /\ (ofs.offset_max < SIZE_MAX \/ ofs.offset_min > ofs.offset_max)) =>
        LET copies == IF ofs.offset_min <= ofs.offset_max
                      THEN ofs.offset_max - ofs.offset_min + 1
                      ELSE 0
        IN  /\ ncopy <= copies
            /\ pc = "done" => ncopy = copies

\* The loop is deterministic and runs on its own: every enabled step is
\* eventually taken.
FairSpecOffset == SpecOffset /\ WF_vars(NextOffset)

\* Under FairSpecOffset such a call returns ...
ReturnsBelowMax ==
    (InCall /\ (ofs.offset_max < SIZE_MAX \/ ofs.offset_min > ofs.offset_max))
        ~> (pc = "done")

\* ... and a call with offset_min <= offset_max = SIZE_MAX never does.
NeverReturnsAtMax ==
    (InCall /\ ofs.offset_min <= ofs.offset_max /\ ofs.offset_max = SIZE_MAX)
        => pc # "done"

---------------------------------------------------------------------------
\* void mbedtls_ct_memmove_left(void *start, size_t total, size_t offset)

Call_memmove_left(start, total, offset) ==
    /\ pc = "idle"
    /\ mv' = [fn |-> "memmove_left", buf |-> start, total |-> total, offset |-> offset,
              i |-> 0, n |-> 0, no_op |-> MBEDTLS_CT_FALSE]
    /\ pc' = "memmove_left_outer"
    /\ UNCHANGED <<cfg, mem, mem0, cmp, ret, cpy, ofs, zr, trace, ncopy>>

\* Mutant: a pass that is a no-op is skipped.
memmove_left_outer_skip ==
    /\ pc = "memmove_left_outer"
    /\ IF mv.i < mv.total
       THEN LET no_op == mbedtls_ct_uint_gt(SzSub(mv.total, mv.offset), mv.i)
            IN  IF no_op = MBEDTLS_CT_TRUE
                THEN /\ mv' = [mv EXCEPT !.no_op = no_op, !.i = SzAdd(mv.i, 1)]
                     /\ pc' = pc
                ELSE /\ mv' = [mv EXCEPT !.no_op = no_op, !.n = 0]
                     /\ pc' = "memmove_left_inner"
       ELSE /\ pc' = "done"
            /\ mv' = mv
    /\ UNCHANGED <<cfg, mem, mem0, cmp, ret, cpy, ofs, zr, trace, ncopy>>

\* The test of the outer loop and the condition of pass i.
memmove_left_outer ==
    /\ pc = "memmove_left_outer"
    /\ IF mv.i < mv.total
       THEN /\ mv' = [mv EXCEPT
                        !.no_op = mbedtls_ct_uint_gt(SzSub(mv.total, mv.offset), mv.i),
                        !.n = 0]
            /\ pc' = "memmove_left_inner"
       ELSE /\ pc' = "done"
            /\ mv' = mv
    /\ UNCHANGED <<cfg, mem, mem0, cmp, ret, cpy, ofs, zr, trace, ncopy>>

memmove_left_inner ==
    /\ pc = "memmove_left_inner"
    /\ IF mv.n < SzSub(mv.total, 1)
       THEN LET current == mem[mv.buf + mv.n]
                next    == mem[mv.buf + mv.n + 1]
            IN  /\ mem' = [mem EXCEPT ![mv.buf + mv.n] =
                                mbedtls_ct_uint_if(mv.no_op, current, next)]
                /\ trace' = trace \o Loads(mv.buf + mv.n, 2) \o Stores(mv.buf + mv.n, 1)
                /\ mv' = [mv EXCEPT !.n = SzAdd(mv.n, 1)]
                /\ pc' = pc
       ELSE /\ pc' = "memmove_left_last"
            /\ UNCHANGED <<mem, trace, mv>>
    /\ UNCHANGED <<cfg, mem0, cmp, ret, cpy, ofs, zr, ncopy>>

\* Mutant: the last byte is stored back as it is.
memmove_left_last_keep ==
    /\ pc = "memmove_left_last"
    /\ LET last == mv.buf + SzSub(mv.total, 1)
       IN  /\ mem' = [mem EXCEPT ![last] = mem[last]]
           /\ trace' = trace \o Loads(last, 1) \o Stores(last, 1)
    /\ mv' = [mv EXCEPT !.i = SzAdd(mv.i, 1)]
    /\ pc' = "memmove_left_outer"
    /\ UNCHANGED <<cfg, mem0, cmp, ret, cpy, ofs, zr, ncopy>>

\* buf[total-1] = mbedtls_ct_uint_if_else_0(no_op, buf[total-1]); i++
memmove_left_last ==
    /\ pc = "memmove_left_last"
    /\ LET last == mv.buf + SzSub(mv.total, 1)
       IN  /\ mem' = [mem EXCEPT ![last] = mbedtls_ct_uint_if_else_0(mv.no_op, mem[last])]
           /\ trace' = trace \o Loads(last, 1) \o Stores(last, 1)
    /\ mv' = [mv EXCEPT !.i = SzAdd(mv.i, 1)]
    /\ pc' = "memmove_left_outer"
    /\ UNCHANGED <<cfg, mem0, cmp, ret, cpy, ofs, zr, ncopy>>

\* Inputs: a buffer of up to MaxTotal bytes at one of two addresses, any
\* offset in 0..total; MemC at address 1 is the buffer 1, 2, 3, ...
MvStarts == {1, 3}

InitMove ==
    /\ cfg = "bytewise"
    /\ mem \in {MemA, MemC}
    /\ IdleState

NextMove ==
    \/ /\ pc = "idle"
       /\ \E start \in MvStarts, total \in 0..MaxTotal :
            \E offset \in 0..total :
                /\ Valid(start, total)
                /\ Call_memmove_left(start, total, offset)
    \/ memmove_left_outer
    \/ memmove_left_inner
    \/ memmove_left_last

SpecMove == InitMove /\ [][NextMove]_vars

Buffer(m, p, n) == [k \in 1..n |-> m[p + k - 1]]

\* C4: after mbedtls_ct_memmove_left(B, total, offset) with offset <= total the
\* buffer holds B[j + offset] at every j < total - offset and 0 at every other
\* index; offset = 0 leaves it unchanged, offset = total makes it all zero, and
\* 1,2,3,4,5,6,7,8 with offset 3 becomes 4,5,6,7,8,0,0,0.
C4_MemmoveLeftShifts ==
    (pc = "done" /\ mv.fn = "memmove_left") =>
        LET before == Buffer(mem0, mv.buf, mv.total)
            after  == Buffer(mem, mv.buf, mv.total)
        IN  /\ \A j \in 0..(mv.total - 1) :
                  after[j + 1] = IF j < mv.total - mv.offset
                                 THEN before[j + 1 + mv.offset]
                                 ELSE 0
            /\ mv.offset = 0 => after = before
            /\ mv.offset = mv.total => after = [k \in 1..mv.total |-> 0]
            /\ (before = <<1, 2, 3, 4, 5, 6, 7, 8>> /\ mv.offset = 3)
                   => after = <<4, 5, 6, 7, 8, 0, 0, 0>>

\* The worked example: 1..8 shifted left by 3.
C4_Witness ==
    /\ pc = "done" /\ mv.fn = "memmove_left"
    /\ Buffer(mem0, mv.buf, mv.total) = <<1, 2, 3, 4, 5, 6, 7, 8>>
    /\ mv.offset = 3
    /\ Buffer(mem, mv.buf, mv.total) = <<4, 5, 6, 7, 8, 0, 0, 0>>

\* The accesses of the inner loop for n = 0 .. upto-1, and of a whole pass.
RECURSIVE InnerAccesses(_, _)
InnerAccesses(buf, upto) ==
    IF upto <= 0 THEN <<>>
    ELSE InnerAccesses(buf, upto - 1)
         \o Loads(buf + upto - 1, 2) \o Stores(buf + upto - 1, 1)
PassAccesses(buf, total) ==
    InnerAccesses(buf, total - 1) \o Loads(buf + total - 1, 1) \o Stores(buf + total - 1, 1)
RECURSIVE Passes(_, _, _)
Passes(buf, total, k) ==
    IF k = 0 THEN <<>> ELSE Passes(buf, total, k - 1) \o PassAccesses(buf, total)

\* C8: the loads and stores of mbedtls_ct_memmove_left are fixed by total
\* alone: after i passes they are i times the accesses of one pass, which
\* stores indices 0, 1, ..., total-1 once each in that order; the call returns
\* after exactly total passes and total * total stores, whatever offset is.
C8_MemmoveLeftAccessesFixed ==
    mv.fn = "memmove_left" =>
        /\ trace = Passes(mv.buf, mv.total, mv.i)
                   \o (IF pc \in {"memmove_left_inner", "memmove_left_last"}
                       THEN InnerAccesses(mv.buf, mv.n) ELSE <<>>)
        /\ mv.total > 0 =>
              StoresOf(PassAccesses(mv.buf, mv.total)) = Stores(mv.buf, mv.total)
        /\ pc = "done" =>
              /\ mv.i = mv.total
              /\ Len(StoresOf(trace)) = mv.total * mv.total

\* A returned call on the longest buffer with an offset strictly between 0
\* and total, so that some passes shift and some do not.
C8_Witness ==
    /\ pc = "done" /\ mv.fn = "memmove_left"
    /\ mv.total = MaxTotal /\ mv.offset = 2
    /\ mem # mem0
    /\ Len(StoresOf(trace)) = MaxTotal * MaxTotal

---------------------------------------------------------------------------
\* void mbedtls_ct_zeroize_if(mbedtls_ct_condition_t condition, void *buf, size_t len)

\* Mutant: the mask is the condition itself, not its complement.
zeroize_if_mask_plain(condition) == Uint32(condition)

\* uint32_t mask = (uint32_t) ~condition;
zeroize_if_mask(condition) == Uint32(Not(condition))

Call_zeroize_if(condition, buf, len) ==
    /\ pc = "idle"
    /\ zr' = [fn |-> "zeroize_if", condition |-> condition, p |-> buf, len |-> len,
              mask |-> zeroize_if_mask(condition), i |-> 0]
    /\ pc' = IF MBEDTLS_EFFICIENT_UNALIGNED_ACCESS
             THEN "zeroize_if_word" ELSE "zeroize_if_byte"
    /\ UNCHANGED <<cfg, mem, mem0, cmp, ret, cpy, ofs, mv, trace, ncopy>>

zeroize_if_word ==
    /\ pc = "zeroize_if_word"
    /\ IF SzAdd(zr.i, 4) <= zr.len
       THEN /\ mem' = put_unaligned_uint32(mem, zr.p + zr.i,
                          And(get_unaligned_uint32(mem, zr.p + zr.i), zr.mask))
            /\ trace' = trace \o Loads(zr.p + zr.i, 4) \o Stores(zr.p + zr.i, 4)
            /\ zr' = [zr EXCEPT !.i = SzAdd(zr.i, 4)]
            /\ pc' = pc
       ELSE /\ pc' = "zeroize_if_byte"
            /\ UNCHANGED <<mem, trace, zr>>
    /\ UNCHANGED <<cfg, mem0, cmp, ret, cpy, ofs, mv, ncopy>>

zeroize_if_byte ==
    /\ pc = "zeroize_if_byte"
    /\ IF zr.i < zr.len
       THEN /\ mem' = [mem EXCEPT ![zr.p + zr.i] =
                            ToByte(And(Ext32(mem[zr.p + zr.i]), zr.mask))]
            /\ trace' = trace \o Loads(zr.p + zr.i, 1) \o Stores(zr.p + zr.i, 1)
            /\ zr' = [zr EXCEPT !.i = SzAdd(zr.i, 1)]
            /\ pc' = pc
       ELSE /\ pc' = "done"
            /\ UNCHANGED <<mem, trace, zr>>
    /\ UNCHANGED <<cfg, mem0, cmp, ret, cpy, ofs, mv, ncopy>>

\* Inputs: a buffer of up to MaxLen bytes at one of three addresses.
ZrPtrs == {1, 2, 1 + MaxLen}

InitZero ==
    /\ cfg \in {"bytewise", "unaligned"}
    /\ mem \in {MemA, MemB, MemC}
    /\ IdleState

NextZero ==
    \/ /\ pc = "idle"
       /\ \E condition \in Conditions, buf \in ZrPtrs, len \in 0..MaxLen :
            /\ Valid(buf, len)
            /\ Call_zeroize_if(condition, buf, len)
    \/ zeroize_if_word
    \/ zeroize_if_byte

SpecZero == InitZero /\ [][NextZero]_vars

\* C5: after mbedtls_ct_zeroize_if(condition, buf, len) every byte of
\* buf[0..len-1] is 0 when the condition is true and is what it was before
\* the call when the condition is false.
C5_ZeroizeIf ==
    (pc = "done" /\ zr.fn = "zeroize_if") =>
        \A j \in 0..(zr.len - 1) :
            mem[zr.p + j] = IF zr.condition = MBEDTLS_CT_TRUE THEN 0 ELSE mem0[zr.p + j]

\* A true condition on the longest buffer, no byte of which was 0, through
\* the word loop and the byte loop.
C5_Witness ==
    /\ pc = "done" /\ zr.fn = "zeroize_if"
    /\ cfg = "unaligned" /\ zr.len = MaxLen
    /\ zr.condition = MBEDTLS_CT_TRUE
    /\ \A j \in 0..(zr.len - 1) : mem0[zr.p + j] # 0 /\ mem[zr.p + j] = 0

=============================================================================
